---------------------------- MODULE Spec2Model ----------------------------
(***************************************************************************)
(* Host runtime of the TinyForge fantasy console (src/host/sprite-manager.js*)
(* lines 306-783, the main module): guest loader, hot reload, input        *)
(* listeners and the fixed-timestep frame scheduler.                       *)
(*                                                                         *)
(* JavaScript runs every handler to completion on one thread.  The model   *)
(* keeps that: pc = "idle" is the event loop between handlers, and every   *)
(* other value of pc is a position inside frame() or loadGame() at which a *)
(* guest entry point is executing or the loop condition is evaluated; no   *)
(* other handler is enabled there.                                         *)
(*                                                                         *)
(* Time is counted in quanta of half a tick (DT = 2 quanta), exactly; the  *)
(* floating-point rounding of the accumulator is not modelled.             *)
(***************************************************************************)
EXTENDS Integers, FiniteSets, Sequences, TLC

(***************************************************************************)
(* Bounds of the model.                                                    *)
(***************************************************************************)
MaxClock == 12       \* SpecClock: performance.now() runs up to MaxClock quanta
MaxTicks == 1        \* Spec: performance.now() runs up to MaxTicks ticks
MaxInputTicks == 2   \* SpecInput, SpecSwap: up to MaxInputTicks ticks
MaxLoads == 3        \* loadGame is called at most MaxLoads times
MaxPending == 2      \* requested animation-frame callbacks outstanding
MaxFiles == 2        \* SpecSprites: files in the listing of assets/sprites/
MaxMarker == 3       \* SpecWatch: version markers of the guest binaries run up to MaxMarker
MaxSources == 2      \* looping audio sources sounding at once

(***************************************************************************)
(* Program constants.                                                      *)
(***************************************************************************)
DT == 2              \* const DT = 1000 / TICK_HZ, in quanta
MAX_UPDATES == 5
WIDTH == 320         \* display width in pixels
HEIGHT == 240        \* display height in pixels

Required == {"init", "update", "draw"}

\* KEYMAP: key code -> bit of the keyboard mask
KEYMAP == [c \in {"ArrowUp", "ArrowDown", "ArrowLeft", "ArrowRight",
                  "KeyZ", "KeyX", "Enter"} |->
             CASE c = "ArrowUp" -> 0 [] c = "ArrowDown" -> 1
               [] c = "ArrowLeft" -> 2 [] c = "ArrowRight" -> 3
               [] c = "KeyZ" -> 4 [] c = "KeyX" -> 5 [] c = "Enter" -> 6]

\* inputs the environment draws from
Games == {"pong", "snake"}
ExportSets == {Required, Required \ {"draw"}, {"update"}}   \* exports of a guest binary
KeyCodes == {"KeyZ", "KeyQ"}        \* one mapped key, one unmapped key
Buttons == {0, 3}                   \* MouseEvent.button: left, and a 4th button
AllButtons == {0, 1, 2, 3}          \* left, middle, right, and a 4th button
\* enum MouseButton of the SDK, as the bit each flag is (1 << bit)
MouseButton == [LEFT |-> 0, RIGHT |-> 1, MIDDLE |-> 2]
\* canvas.getBoundingClientRect(): the canvas shown at twice its logical size
ClientRect == [left |-> 10, top |-> 20, width |-> 640, height |-> 480]
\* mousemove events over the canvas: inside it, and at its far corner
MouseEvents == {[clientX |-> 24, clientY |-> 39], [clientX |-> 649, clientY |-> 499]}
\* Math.floor((e.clientX - rect.left) * scaleX), scaleX = extent / rect.width
toVirtual(client, origin, size, extent) == ((client - origin) * extent) \div size
\* pointer positions the mousemove listener computes
Positions ==
  {<<toVirtual(e.clientX, ClientRect.left, ClientRect.width, WIDTH),
     toVirtual(e.clientY, ClientRect.top, ClientRect.height, HEIGHT)>> : e \in MouseEvents}
Handles == 1..MaxPending
\* how a call of a guest entry point ends: it returns, it traps, or it calls
\* the abort import and then traps (the guests' compiler puts a trap after
\* every call of abort); the host catches a trap as an exception
GuestOutcomes == {"ok", "throw", "abort"}

VARIABLES
  clock,              \* performance.now()
  hidden,             \* document.hidden
  pc,                 \* position of the running handler
  pending,            \* animation-frame callbacks requested and not yet run
  loads,              \* loadGame calls awaiting loader.instantiateStreaming
  nextInst,           \* number of the next guest instance
  cur,                \* the loadGame call whose continuation is running
  hasAborted, animationFrameId,
  wasmExports,
  init, binding, draw,  \* instance each handle comes from (binding: of update)
  currentGame, lastModified, watchInterval,
  marker,             \* Last-Modified of each guest binary on the server
  checks,             \* checkWasmUpdate calls awaiting their fetch
  currentMusic,       \* #currentMusic: the source playMusic started last, 0 for null
  sounding,           \* looping sources started and not stopped, each with its buffer
  sfxPlayed,          \* sound-effect buffers a one-shot source was started on
  sfxListing, musicListing,  \* files of assets/sfx/ and assets/music/, in listing order
  apc,                \* position of audioManager.loadAudio()
  audioAssets,        \* assets of the directory being loaded, scanned and not yet loaded
  sfxBuffers, musicBuffers,  \* #sfxBuffers, #musicBuffers
  audioWarnings,      \* console.warn calls of the audio manager
  inputMask, prevInputMask, mouseX, mouseY, mouseButtons, prevMouseButtons,
  last, acc, updates,
  memInput, memMouse, ram, spriteMem, fb, screen,   \* arena regions, canvas
  assets,             \* startup: "loading", "loaded" (injectors settled), "started"
  lastEntry,          \* most recent addConsoleEntry
  \* history of the run (not program state)
  elapsed, ticks,     \* frame time summed / updates returned since acc was last reset
  clean,              \* since then: no guest trap and no delta above MAX_UPDATES*DT
  fits,               \* since then: acc never rose above MAX_UPDATES*DT
  capped,             \* since then: a frame callback ran MAX_UPDATES updates
  cold, inits, ran,   \* of the captured binding: loaded cold, calls of init,
                      \* whether update or draw was called,
  trapped,            \* whether it called abort or its update or draw threw
  initFailed,         \* whether its init trapped or threw
  commits, calls,     \* in the running frame callback: snapshots committed, calls of update
  rolled,             \* a rollover was done and no load has begun or ended since
  listing,            \* files of assets/sprites/, in the order of the directory listing
  spc,                \* position of spriteManager.loadSprites()
  spriteAssets,       \* assets scanned and not yet loaded
  sprites,            \* #sprites, in the Map's iteration order
  nextDataOffset,
  meta, pixelStore,   \* Sprite Metadata table; writes into the view at SPRITE_DATA_ADDR
  warnings,           \* console.warn calls of the sprite manager
  seen,               \* marker a check of the selected binary returned since the
                      \* watch was started, 0 if none
  failed              \* the check that settled last threw

sched == <<hasAborted, animationFrameId, pending, last, acc, updates>>
guest == <<wasmExports, init, binding, draw, loads, nextInst, cur>>
watch == <<marker, checks, seen, failed>>
injector == <<listing, spc, spriteAssets, sprites, nextDataOffset, meta, pixelStore, warnings>>
audio == <<sfxListing, musicListing, apc, audioAssets, sfxBuffers, musicBuffers, audioWarnings>>
player == <<currentMusic, sounding, sfxPlayed>>
host  == <<currentGame, lastModified, watchInterval, player, assets, watch, injector, audio>>
input == <<inputMask, prevInputMask, mouseX, mouseY, mouseButtons, prevMouseButtons>>
arena == <<memInput, memMouse, ram, spriteMem, fb, screen>>
clk   == <<elapsed, ticks, clean, fits, capped>>
bind  == <<cold, inits, ran, trapped, initFailed>>
snap  == <<commits, calls, rolled>>
hist  == <<clk, bind, snap>>
vars  == <<clock, hidden, pc, sched, guest, host, input, arena, lastEntry, hist>>

NoLoad == [id |-> 0, game |-> "", skipInit |-> FALSE]

Entry(level, what, names) == [level |-> level, what |-> what, names |-> names]

----------------------------------------------------------------------------
(***************************************************************************)
(* Platform.                                                               *)
(***************************************************************************)

\* requestAnimationFrame: a handle not outstanding (the least one)
RequestFrame(p) == CHOOSE h \in Handles \ p : \A k \in Handles \ p : h <= k

CanRequest == Cardinality(pending) < MaxPending

\* d quanta of time pass between two handlers, up to the horizon
Advance(d, horizon) ==
  /\ pc = "idle"
  /\ clock + d <= horizon
  /\ clock' = clock + d
  /\ UNCHANGED <<hidden, pc, sched, guest, host, input, arena, lastEntry, hist>>

----------------------------------------------------------------------------
(***************************************************************************)
(* Guest loader.                                                           *)
(***************************************************************************)

\* audioManager.stopMusic()
stopMusic ==
  /\ sounding' = {s \in sounding : s.source # currentMusic}
  /\ currentMusic' = 0

\* loadGame, up to the await of loader.instantiateStreaming
loadGameBegin(gameName, skipInit) ==
  /\ nextInst <= MaxLoads
  /\ pending' = pending \ {animationFrameId}
  /\ animationFrameId' = 0
  /\ stopMusic
  /\ hasAborted' = FALSE
  /\ lastEntry' = Entry("LOG", "loading", {})
  /\ loads' = loads \cup {[id |-> nextInst, game |-> gameName, skipInit |-> skipInit]}
  /\ nextInst' = nextInst + 1
  /\ rolled' = FALSE
  /\ UNCHANGED <<clock, hidden, pc, last, acc, updates, wasmExports, init, binding, draw, cur,
                 sfxPlayed, input, arena, clk, bind, commits, calls>>

\* spriteManager.loadSprites() settles: the sprite catalog is in the arena
SpritesLoaded ==
  /\ pc = "idle"
  /\ assets = "loading"
  /\ assets' = "loaded"
  /\ spriteMem' = "sprites"
  /\ UNCHANGED <<clock, hidden, pc, sched, guest, currentGame, lastModified, watchInterval,
                 watch, injector, audio, player, input, memInput, memMouse, ram, fb, screen, lastEntry, hist>>

\* Promise.all([...]).then: first load, start the watch
AssetsLoaded ==
  /\ pc = "idle"
  /\ assets = "loaded"
  /\ assets' = "started"
  /\ loadGameBegin(currentGame, FALSE)
  /\ lastModified' = 0
  /\ watchInterval' = TRUE
  /\ seen' = 0 /\ failed' = FALSE
  /\ UNCHANGED <<currentGame, marker, checks, injector, audio>>

\* gameSelect 'change'
SelectGame(g) ==
  /\ pc = "idle"
  /\ g # currentGame
  /\ currentGame' = g
  /\ loadGameBegin(g, FALSE)
  /\ lastModified' = 0
  /\ watchInterval' = TRUE
  /\ seen' = 0 /\ failed' = FALSE
  /\ UNCHANGED <<assets, marker, checks, injector, audio>>

\* hotReload: reload button, or the R key
HotReload ==
  /\ pc = "idle"
  /\ loadGameBegin(currentGame, TRUE)
  /\ UNCHANGED <<currentGame, lastModified, watchInterval, assets, watch, injector, audio>>

\* "Start game loop": the tail of a successful loadGame
StartLoop ==
  /\ last' = clock
  /\ acc' = 0
  /\ inputMask' = {}
  /\ prevInputMask' = {}
  /\ pending' = pending \cup {RequestFrame(pending)}
  /\ UNCHANGED <<animationFrameId, updates, mouseX, mouseY, mouseButtons, prevMouseButtons>>
  /\ elapsed' = 0 /\ ticks' = 0 /\ clean' = TRUE /\ fits' = TRUE /\ capped' = FALSE
  /\ rolled' = FALSE
  /\ UNCHANGED <<commits, calls>>

LoadFailedQuiet(what, names) ==
  /\ lastEntry' = Entry("ERROR", what, names)
  /\ UNCHANGED <<hasAborted, animationFrameId, pending, last, acc, updates, input>>
  /\ UNCHANGED <<clk, snap>>

\* catch (e) of loadGame
LoadFailed(what, names) ==
  /\ lastEntry' = Entry("ERROR", what, names)
  /\ hasAborted' = TRUE
  /\ UNCHANGED <<animationFrameId, pending, last, acc, updates, input>>
  /\ UNCHANGED <<clk, snap>>

CallsInitNever(l) == FALSE

CallsInitAlways(l) == TRUE

\* whether loadGame calls init() on the instance it captured
CallsInit(l) == ~l.skipInit

CaptureKeepsInit(l) ==
  /\ init' = IF l.skipInit THEN init ELSE l.id
  /\ binding' = l.id
  /\ draw' = l.id

\* "Assign lifecycle functions"
Capture(l) ==
  /\ init' = l.id
  /\ binding' = l.id
  /\ draw' = l.id

\* the continuation of loadGame: instantiateStreaming rejected
LoadReject(l) ==
  /\ pc = "idle"
  /\ l \in loads
  /\ loads' = loads \ {l}
  /\ LoadFailed("instantiate", {})
  /\ UNCHANGED <<clock, hidden, pc, wasmExports, init, binding, draw, nextInst, cur,
                 host, arena, bind>>

\* the continuation of loadGame: the instance exports `exports`
\* (the guests are built with memoryBase 0: the data segments of an instance
\* lie below the input region, outside Guest RAM and the sprite regions)
LoadResolve(l, exports) ==
  /\ pc = "idle"
  /\ l \in loads
  /\ CanRequest
  /\ loads' = loads \ {l}
  /\ wasmExports' = l.id
  /\ LET missing == Required \ exports IN
     IF missing # {}
       THEN /\ LoadFailed("missing exports", missing)
            /\ UNCHANGED <<init, binding, draw, pc, cur, bind>>
       ELSE /\ Capture(l)
            /\ cold' = ~l.skipInit
            /\ ran' = FALSE
            /\ trapped' = FALSE
            /\ initFailed' = FALSE
            /\ IF CallsInit(l)
                 THEN /\ pc' = "init"
                      /\ cur' = l
                      /\ inits' = 1
                      /\ UNCHANGED <<sched, input, lastEntry, clk, snap>>
                 ELSE /\ lastEntry' = Entry("LOG", "hot reloaded", {})
                      /\ inits' = 0
                      /\ StartLoop
                      /\ UNCHANGED <<hasAborted, pc, cur>>
  /\ UNCHANGED <<clock, hidden, nextInst, host, arena>>

\* init() returns or throws inside loadGame
InitReturn(o) ==
  /\ pc = "init"
  /\ pc' = "idle"
  /\ cur' = NoLoad
  /\ ram' = "init"
  /\ trapped' = (o = "abort")
  /\ initFailed' = (o # "ok")
  /\ IF o = "ok"
       THEN /\ lastEntry' = Entry("LOG", "loaded", {})
            /\ UNCHANGED hasAborted
            /\ StartLoop
       ELSE LoadFailed("init", {})
  /\ UNCHANGED <<clock, hidden, wasmExports, init, binding, draw, loads, nextInst, host,
                 memInput, memMouse, spriteMem, fb, screen, cold, inits, ran>>

----------------------------------------------------------------------------
(***************************************************************************)
(* Guest binary watcher.                                                   *)
(***************************************************************************)

\* the guest binary of game g is rebuilt: its Last-Modified moves on
Publish(g) ==
  /\ pc = "idle"
  /\ marker[g] < MaxMarker
  /\ marker' = [marker EXCEPT ![g] = @ + 1]
  /\ UNCHANGED <<clock, hidden, pc, sched, guest, currentGame, lastModified, watchInterval,
                 player, assets, checks, seen, failed, injector, audio, input, arena, lastEntry, hist>>

\* the interval fires: checkWasmUpdate, up to the await of its fetch
CheckIssue ==
  /\ pc = "idle"
  /\ watchInterval
  /\ checks' = checks \cup {[game |-> currentGame]}
  /\ UNCHANGED <<clock, hidden, pc, sched, guest, currentGame, lastModified, watchInterval,
                 player, assets, marker, seen, failed, injector, audio, input, arena, lastEntry, hist>>

CheckFailForgets(c) ==
  /\ pc = "idle"
  /\ c \in checks
  /\ checks' = checks \ {c}
  /\ failed' = TRUE
  /\ lastModified' = 0
  /\ UNCHANGED <<clock, hidden, pc, sched, guest, currentGame, watchInterval,
                 player, assets, marker, seen, injector, audio, input, arena, lastEntry, hist>>

\* the fetch of check c rejects: catch (e), ignored
CheckFail(c) ==
  /\ pc = "idle"
  /\ c \in checks
  /\ checks' = checks \ {c}
  /\ failed' = TRUE
  /\ UNCHANGED <<clock, hidden, pc, sched, guest, currentGame, lastModified, watchInterval,
                 player, assets, marker, seen, injector, audio, input, arena, lastEntry, hist>>

\* the continuation of checkWasmUpdate: the response carries the marker the
\* requested binary has now
CheckReturn(c) ==
  /\ pc = "idle"
  /\ c \in checks
  /\ checks' = checks \ {c}
  /\ seen' = IF c.game = currentGame THEN marker[c.game] ELSE seen
  /\ failed' = FALSE
  /\ LET modified == marker[c.game] IN
     IF lastModified # 0 /\ modified # lastModified
       THEN /\ lastModified' = modified
            /\ loadGameBegin(currentGame, TRUE)
            /\ UNCHANGED <<currentGame, watchInterval, assets, marker, injector, audio>>
       ELSE /\ lastModified' = IF lastModified = 0 THEN modified ELSE lastModified
            /\ UNCHANGED <<clock, hidden, pc, sched, guest, currentGame, watchInterval,
                           player, assets, marker, injector, audio, input, arena, lastEntry, hist>>

----------------------------------------------------------------------------
(***************************************************************************)
(* Page visibility.                                                        *)
(***************************************************************************)

VisibilityChangeKeepsClock ==
  /\ pc = "idle"
  /\ hidden' = ~hidden
  /\ IF hidden'
       THEN /\ pending' = pending \ {animationFrameId}
            /\ animationFrameId' = 0
            /\ UNCHANGED <<last, acc, hist>>
       ELSE IF animationFrameId = 0 /\ ~hasAborted
         THEN /\ CanRequest
              /\ animationFrameId' = RequestFrame(pending)
              /\ pending' = pending \cup {animationFrameId'}
              /\ UNCHANGED <<last, acc, hist>>
         ELSE UNCHANGED <<pending, animationFrameId, last, acc, hist>>
  /\ UNCHANGED <<clock, pc, hasAborted, updates, guest, host, input, arena, lastEntry>>

\* the visibilitychange listener
VisibilityChange ==
  /\ pc = "idle"
  /\ hidden' = ~hidden
  /\ IF hidden'
       THEN /\ pending' = pending \ {animationFrameId}
            /\ animationFrameId' = 0
            /\ UNCHANGED <<last, acc, hist>>
       ELSE IF animationFrameId = 0 /\ ~hasAborted
         THEN /\ CanRequest
              /\ last' = clock
              /\ acc' = 0
              /\ animationFrameId' = RequestFrame(pending)
              /\ pending' = pending \cup {animationFrameId'}
              /\ elapsed' = 0 /\ ticks' = 0 /\ clean' = TRUE /\ fits' = TRUE /\ capped' = FALSE
              /\ UNCHANGED <<bind, snap>>
         ELSE UNCHANGED <<pending, animationFrameId, last, acc, hist>>
  /\ UNCHANGED <<clock, pc, hasAborted, updates, guest, host, input, arena, lastEntry>>

----------------------------------------------------------------------------
(***************************************************************************)
(* Raw input listeners.                                                    *)
(***************************************************************************)

KeyDownWritesArena(code) ==
  /\ pc = "idle"
  /\ inputMask' = IF code \in DOMAIN KEYMAP THEN inputMask \cup {KEYMAP[code]}
                                            ELSE inputMask
  /\ memInput' = [memInput EXCEPT !.buttons = inputMask']
  /\ UNCHANGED <<clock, hidden, pc, sched, guest, host, prevInputMask, mouseX, mouseY,
                 mouseButtons, prevMouseButtons, memMouse, ram, spriteMem, fb, screen,
                 lastEntry, hist>>

KeyDown(code) ==
  /\ pc = "idle"
  /\ inputMask' = IF code \in DOMAIN KEYMAP THEN inputMask \cup {KEYMAP[code]}
                                            ELSE inputMask
  /\ UNCHANGED <<clock, hidden, pc, sched, guest, host, prevInputMask, mouseX, mouseY,
                 mouseButtons, prevMouseButtons, arena, lastEntry, hist>>

KeyUp(code) ==
  /\ pc = "idle"
  /\ inputMask' = IF code \in DOMAIN KEYMAP THEN inputMask \ {KEYMAP[code]}
                                            ELSE inputMask
  /\ UNCHANGED <<clock, hidden, pc, sched, guest, host, prevInputMask, mouseX, mouseY,
                 mouseButtons, prevMouseButtons, arena, lastEntry, hist>>

mapMouseButtonAsIs(button) ==
  IF button < 0 \/ button > 2 THEN -1 ELSE button

mapMouseButton(button) ==
  IF button < 0 \/ button > 2 THEN -1
  ELSE IF button = 2 THEN 1 ELSE IF button = 1 THEN 2 ELSE 0

MouseDown(button) ==
  /\ pc = "idle"
  /\ mouseButtons' = IF mapMouseButton(button) # -1
                       THEN mouseButtons \cup {mapMouseButton(button)}
                       ELSE mouseButtons
  /\ UNCHANGED <<clock, hidden, pc, sched, guest, host, inputMask, prevInputMask,
                 mouseX, mouseY, prevMouseButtons, arena, lastEntry, hist>>

MouseUp(button) ==
  /\ pc = "idle"
  /\ mouseButtons' = IF mapMouseButton(button) # -1
                       THEN mouseButtons \ {mapMouseButton(button)}
                       ELSE mouseButtons
  /\ UNCHANGED <<clock, hidden, pc, sched, guest, host, inputMask, prevInputMask,
                 mouseX, mouseY, prevMouseButtons, arena, lastEntry, hist>>

MouseMove(p) ==
  /\ pc = "idle"
  /\ mouseX' = p[1]
  /\ mouseY' = p[2]
  /\ UNCHANGED <<clock, hidden, pc, sched, guest, host, inputMask, prevInputMask,
                 mouseButtons, prevMouseButtons, arena, lastEntry, hist>>

MouseLeaveKeepsY ==
  /\ pc = "idle"
  /\ mouseX' = -1
  /\ UNCHANGED mouseY
  /\ UNCHANGED <<clock, hidden, pc, sched, guest, host, inputMask, prevInputMask,
                 mouseButtons, prevMouseButtons, arena, lastEntry, hist>>

MouseLeave ==
  /\ pc = "idle"
  /\ mouseX' = -1
  /\ mouseY' = -1
  /\ UNCHANGED <<clock, hidden, pc, sched, guest, host, inputMask, prevInputMask,
                 mouseButtons, prevMouseButtons, arena, lastEntry, hist>>

----------------------------------------------------------------------------
(***************************************************************************)
(* Frame scheduler: frame(now), one action per position.                   *)
(***************************************************************************)

LoopCondStrict == acc > DT /\ updates < MAX_UPDATES /\ ~hasAborted

LoopCondOffByOne == acc >= DT /\ updates <= MAX_UPDATES /\ ~hasAborted

\* the while condition of the fixed-timestep loop
LoopCond == acc >= DT /\ updates < MAX_UPDATES /\ ~hasAborted

CapCheckKeeps(a, u) == a

CapCheckDropsRemainder(a, u) == IF u >= 1 THEN 0 ELSE a

\* "If we hit the update cap, skip frames rather than spiraling"
CapCheck(a, u) == IF u >= MAX_UPDATES THEN 0 ELSE a

FrameTailAlways(aborted) ==
  IF ~hidden
    THEN /\ animationFrameId' = RequestFrame(pending)
         /\ pending' = pending \cup {animationFrameId'}
    ELSE UNCHANGED <<animationFrameId, pending>>

\* the end of frame(): "Continue the loop only if ..."
FrameTail(aborted) ==
  IF ~hidden /\ ~aborted
    THEN /\ animationFrameId' = RequestFrame(pending)
         /\ pending' = pending \cup {animationFrameId'}
    ELSE UNCHANGED <<animationFrameId, pending>>

\* the callback h runs, up to the loop; the platform runs no animation-frame
\* callback of a hidden document
FrameStart(h) ==
  /\ pc = "idle"
  /\ ~hidden
  /\ h \in pending
  /\ pending' = pending \ {h}
  /\ animationFrameId' = 0
  /\ IF hasAborted
       THEN UNCHANGED <<pc, last, acc, updates, elapsed, clean, fits, commits, calls>>
       ELSE /\ pc' = "loop"
            /\ acc' = acc + (clock - last)
            /\ last' = clock
            /\ updates' = 0
            /\ elapsed' = elapsed + (clock - last)
            /\ clean' = (clean /\ clock - last <= MAX_UPDATES * DT)
            /\ fits' = (fits /\ acc' <= MAX_UPDATES * DT)
            /\ commits' = 0
            /\ calls' = 0
  /\ UNCHANGED <<clock, hidden, hasAborted, guest, host, input, arena, lastEntry,
                 ticks, capped, bind, rolled>>

CommitOncePerFrame ==
  IF updates = 0
    THEN /\ memInput' = [buttons |-> inputMask, prevButtons |-> prevInputMask]
         /\ memMouse' = [x |-> mouseX, y |-> mouseY,
                         buttons |-> mouseButtons, prevButtons |-> prevMouseButtons]
         /\ commits' = commits + 1
    ELSE UNCHANGED <<memInput, memMouse, commits>>

\* "Write input state to WASM memory"
Commit ==
  /\ memInput' = [buttons |-> inputMask, prevButtons |-> prevInputMask]
  /\ memMouse' = [x |-> mouseX, y |-> mouseY,
                  buttons |-> mouseButtons, prevButtons |-> prevMouseButtons]
  /\ commits' = commits + 1

\* the input snapshot is written to the arena and update() is called
LoopCommit ==
  /\ pc = "loop"
  /\ LoopCond
  /\ Commit
  /\ pc' = "update"
  /\ calls' = calls + 1
  /\ ran' = (ran \/ binding # 0)
  /\ UNCHANGED <<clock, hidden, sched, guest, host, input, ram, spriteMem, fb, screen,
                 lastEntry, clk, cold, inits, trapped, initFailed, rolled>>

RolloverKeysOnly ==
  /\ prevInputMask' = inputMask
  /\ UNCHANGED prevMouseButtons
  /\ acc' = acc - DT
  /\ updates' = updates + 1

RolloverClears ==
  /\ prevInputMask' = {}
  /\ prevMouseButtons' = {}
  /\ acc' = acc - DT
  /\ updates' = updates + 1

RolloverPointerOnly ==
  /\ UNCHANGED prevInputMask
  /\ prevMouseButtons' = mouseButtons
  /\ acc' = acc - DT
  /\ updates' = updates + 1

\* the statements after update() inside the try block
Rollover ==
  /\ prevInputMask' = inputMask
  /\ prevMouseButtons' = mouseButtons
  /\ acc' = acc - DT
  /\ updates' = updates + 1

UpdateReturnConsumes(o) ==
  /\ pc = "update"
  /\ binding = 0 => o = "throw"
  /\ ram' = IF binding = 0 THEN ram ELSE "run"
  /\ trapped' = (trapped \/ (o # "ok" /\ binding # 0))
  /\ clean' = (clean /\ o = "ok")
  /\ IF o = "ok"
       THEN /\ Rollover
            /\ UNCHANGED <<hasAborted, lastEntry>>
            /\ ticks' = ticks + 1
            /\ rolled' = TRUE
            /\ pc' = "loop"
       ELSE /\ lastEntry' = Entry("ERROR", "update", {})
            /\ hasAborted' = TRUE
            /\ Rollover
            /\ pc' = "render"
            /\ UNCHANGED <<ticks, rolled>>
  /\ UNCHANGED <<clock, hidden, animationFrameId, pending, last, guest, host,
                 inputMask, mouseX, mouseY, mouseButtons,
                 memInput, memMouse, spriteMem, fb, screen, elapsed, fits, capped,
                 cold, inits, ran, initFailed, commits, calls>>

\* update() returns or throws; an undefined update always throws
UpdateReturn(o) ==
  /\ pc = "update"
  /\ binding = 0 => o = "throw"
  /\ ram' = IF binding = 0 THEN ram ELSE "run"
  /\ trapped' = (trapped \/ (o # "ok" /\ binding # 0))
  /\ clean' = (clean /\ o = "ok")
  /\ IF o = "ok"
       THEN /\ Rollover
            /\ UNCHANGED <<hasAborted, lastEntry>>
            /\ ticks' = ticks + 1
            /\ rolled' = TRUE
            /\ pc' = "loop"
       ELSE /\ lastEntry' = Entry("ERROR", "update", {})
            /\ hasAborted' = TRUE
            /\ acc' = CapCheck(acc, updates)
            /\ pc' = "render"
            /\ UNCHANGED <<prevInputMask, prevMouseButtons, updates, ticks, rolled>>
  /\ UNCHANGED <<clock, hidden, animationFrameId, pending, last, guest, host,
                 inputMask, mouseX, mouseY, mouseButtons,
                 memInput, memMouse, spriteMem, fb, screen, elapsed, fits, capped,
                 cold, inits, ran, initFailed, commits, calls>>

\* the loop condition fails: cap check
LoopExit ==
  /\ pc = "loop"
  /\ ~LoopCond
  /\ acc' = CapCheck(acc, updates)
  /\ capped' = (capped \/ updates >= MAX_UPDATES)
  /\ pc' = "render"
  /\ UNCHANGED <<clock, hidden, hasAborted, animationFrameId, pending, last, updates,
                 guest, host, input, arena, lastEntry, elapsed, ticks, clean, fits,
                 bind, snap>>

RenderAlways ==
  /\ pc = "render"
  /\ pc' = "draw"
  /\ ran' = (ran \/ draw # 0)
  /\ UNCHANGED <<animationFrameId, pending>>
  /\ UNCHANGED <<clock, hidden, hasAborted, last, acc, updates, guest, host, input,
                 arena, lastEntry, clk, cold, inits, trapped, initFailed, snap>>

\* "Render current state": draw() is called unless halted
Render ==
  /\ pc = "render"
  /\ IF ~hasAborted
       THEN /\ pc' = "draw"
            /\ ran' = (ran \/ draw # 0)
            /\ UNCHANGED <<animationFrameId, pending>>
       ELSE /\ pc' = "idle"
            /\ FrameTail(hasAborted)
            /\ UNCHANGED ran
  /\ UNCHANGED <<clock, hidden, hasAborted, last, acc, updates, guest, host, input,
                 arena, lastEntry, clk, cold, inits, trapped, initFailed, snap>>

\* draw() returns or throws; putImageData; the rest of frame()
DrawReturn(o) ==
  /\ pc = "draw"
  /\ draw = 0 => o = "throw"
  /\ pc' = "idle"
  /\ fb' = IF draw = 0 THEN fb ELSE ram
  /\ screen' = IF o = "ok" THEN fb' ELSE screen
  /\ hasAborted' = (hasAborted \/ o # "ok")
  /\ lastEntry' = IF o = "ok" THEN lastEntry ELSE Entry("ERROR", "draw", {})
  /\ trapped' = (trapped \/ (o # "ok" /\ draw # 0))
  /\ clean' = (clean /\ o = "ok")
  /\ FrameTail(hasAborted')
  /\ UNCHANGED <<clock, hidden, last, acc, updates, guest, host, input,
                 memInput, memMouse, ram, spriteMem, elapsed, ticks, fits, capped,
                 cold, inits, ran, initFailed, snap>>

----------------------------------------------------------------------------
(***************************************************************************)
(* Sprite injector: SpriteManager (src/host/sprite-manager.ts) and the     *)
(* asset loader.  A file of the listing is its leading number, the grid    *)
(* its name carries after "~" (<<>> for a single sprite) and the size of   *)
(* the image it decodes to (<<>> when it does not load).  Pixel data is    *)
(* identified by the file and the rectangle it was read from.              *)
(***************************************************************************)

\* memory map (src/sdk/input.ts, lines 160-246), computed as the code computes it
FB_START == 0
FB_SIZE == WIDTH * HEIGHT * 4
INPUT_ADDR == FB_START + FB_SIZE
MOUSE_ADDR_Packed == INPUT_ADDR + 2
MOUSE_ADDR == INPUT_ADDR + 8
SPRITE_METADATA_ADDR == MOUSE_ADDR + 8
SPRITE_METADATA_SIZE == 8
SPRITE_DATA_ADDR == SPRITE_METADATA_ADDR + 256 * SPRITE_METADATA_SIZE
SPRITE_DATA_SIZE == 131072     \* 0x20000
MemoryBytes == 16 * 65536      \* new WebAssembly.Memory({ initial: 16, maximum: 16 })

\* new Uint8Array(memory.buffer, SPRITE_DATA_ADDR): the view runs to the end
\* of the buffer
ViewLength == MemoryBytes - SPRITE_DATA_ADDR

RAM_START == SPRITE_DATA_ADDR + SPRITE_DATA_SIZE
RAM_SIZE == 524288 - RAM_START     \* 0x80000 - RAM_START

\* const metadataAddr = SPRITE_METADATA_ADDR + (id * 8)
metadataAddr(id) == SPRITE_METADATA_ADDR + (id * 8)

FileIds == {5, 254, 300}
Grids == {<<>>, <<3, 2>>, <<2, 1>>}
Images == {<<>>, <<6, 4>>, <<2, 3>>, <<300, 200>>, <<500, 500>>}
Files == [id : FileIds, grid : Grids, image : Images]

runtime == <<clock, hidden, pc, sched, guest, currentGame, lastModified, watchInterval,
             player, assets, audio, watch, input, arena, lastEntry, hist>>

\* AssetLoader.scanDirectory(dir, pattern, 0, 255)
scanDirectory(files) == SelectSeq(files, LAMBDA f : f.id >= 0 /\ f.id <= 255)

\* File names are sequences of characters.  \d of the regular expressions:
DigitChars == {"0", "1", "2", "3", "4", "5", "6", "7", "8", "9"}

digitValue(c) ==
  CASE c = "0" -> 0 [] c = "1" -> 1 [] c = "2" -> 2 [] c = "3" -> 3 [] c = "4" -> 4
    [] c = "5" -> 5 [] c = "6" -> 6 [] c = "7" -> 7 [] c = "8" -> 8 [] c = "9" -> 9

\* filename.split(/[\/\\]/).pop(): what follows the last separator
basename(filename) ==
  LET seps == {i \in 1..Len(filename) : filename[i] = "/"}
      from == IF seps = {} THEN 1 ELSE (CHOOSE i \in seps : \A j \in seps : j <= i) + 1 IN
  SubSeq(filename, from, Len(filename))

\* the match of /^(\d+)/: the longest run of digits the name starts with
RECURSIVE leadingDigits(_)
leadingDigits(name) ==
  IF name = <<>> \/ Head(name) \notin DigitChars THEN <<>>
  ELSE <<Head(name)>> \o leadingDigits(Tail(name))

\* parseInt(digits, 10), from the value of the digits read so far
RECURSIVE parseInt(_, _)
parseInt(ds, sofar) ==
  IF ds = <<>> THEN sofar ELSE parseInt(Tail(ds), sofar * 10 + digitValue(Head(ds)))

\* null, as extractId returns it: a value parseInt never yields
NoId == 0 - 1

extractIdUnanchored(filename) ==
  LET match == SelectSeq(basename(filename), LAMBDA c : c \in DigitChars) IN
  IF match # <<>> THEN parseInt(match, 0) ELSE NoId

\* AssetLoader.extractId
extractId(filename) ==
  LET match == leadingDigits(basename(filename)) IN
  IF match # <<>> THEN parseInt(match, 0) ELSE NoId

\* names of a scanned directory: ids 5 and 7 (written 007), sheets
\* starting at 5 and at 255, digits that do not lead the name, an id above 255
SpriteNames ==
  { <<"5", "-", "a">>, <<"5", "~">>, <<"2", "5", "5", "~">>, <<"a", "5">>,
    <<"3", "0", "0", "-">> }

AudioNames ==
  { <<"0", "0", "7", "-">>, <<"a", "5">>, <<"3", "0", "0", "-">> }

\* the files of those names: each image is 6 by 4, a sheet has two cells; the
\* id of a file is the one scanDirectory extracts from its name
ScanSprites ==
  { [id |-> extractId(n), name |-> n,
     grid |-> IF "~" \in {n[i] : i \in 1..Len(n)} THEN <<2, 1>> ELSE <<>>,
     image |-> <<6, 4>>] : n \in SpriteNames }

ScanAudio ==
  { [id |-> extractId(n), name |-> n, label |-> "a", decodes |-> TRUE] : n \in AudioNames }

\* Map.prototype.has / set: a key already present keeps its place
has(m, id) == \E i \in 1..Len(m) : m[i].id = id

MapSet(m, rec) ==
  IF has(m, rec.id)
    THEN [i \in 1..Len(m) |-> IF m[i].id = rec.id THEN rec ELSE m[i]]
    ELSE Append(m, rec)

\* ctx.getImageData after drawing the rectangle at (sx, sy) of file f
getImageData(f, sx, sy, w, h) ==
  [file |-> f, sx |-> sx, sy |-> sy, length |-> w * h * 4]

loadSingleSprite(m, f) ==
  MapSet(m, [id |-> f.id, width |-> f.image[1], height |-> f.image[2],
             data |-> getImageData(f, 0, 0, f.image[1], f.image[2])])

cellOriginSwapped(row, col, cell) == <<row * cell[1], col * cell[2]>>

\* sx, sy of the cell at (row, col)
cellOrigin(row, col, cell) == <<col * cell[1], row * cell[2]>>

FitsOffByOne(currentId) == currentId <= 256

\* "Store sprite": if (currentId <= 255)
Fits(currentId) == currentId <= 255

\* spriteWidth, spriteHeight
cellSize(f) == <<f.image[1] \div f.grid[1], f.image[2] \div f.grid[2]>>

\* getImageData of an empty rectangle throws (IndexSizeError)
SheetThrows(f) == cellSize(f)[1] = 0 \/ cellSize(f)[2] = 0

\* the two loops of #loadSpriteSheet, from (row, col) on
RECURSIVE extract(_, _, _, _)
extract(st, row, col, f) ==
  LET cell == cellSize(f)
      at == cellOrigin(row, col, cell) IN
  IF row >= f.grid[2] THEN st
  ELSE IF col >= f.grid[1] THEN extract(st, row + 1, 0, f)
  ELSE IF Fits(st.currentId)
    THEN extract([sprites |-> MapSet(st.sprites,
                                 [id |-> st.currentId, width |-> cell[1], height |-> cell[2],
                                  data |-> getImageData(f, at[1], at[2], cell[1], cell[2])]),
                  currentId |-> st.currentId + 1,
                  warned |-> FALSE],
                 row, col + 1, f)
    ELSE [st EXCEPT !.warned = TRUE]

loadSpriteSheet(m, f) ==
  extract([sprites |-> m, currentId |-> f.id, warned |-> FALSE], 0, 0, f)

BytesOfPixels(sp) == sp.width * sp.height

\* sprite.width * sprite.height * 4
BytesOf(sp) == sp.width * sp.height * 4

\* the first loop of #writeSpritesToMemory, from the i-th sprite on
\* (setUint16 keeps 16 bits; an offset that does not fit setUint32 is beyond
\* any buffer)
RECURSIVE writeMetadata(_, _, _, _)
writeMetadata(m, i, table, dataOffset) ==
  IF i > Len(m) THEN [table |-> table, dataOffset |-> dataOffset]
  ELSE writeMetadata(m, i + 1,
         [id \in DOMAIN table \cup {m[i].id} |->
            IF id = m[i].id
              THEN [width |-> m[i].width % 65536, height |-> m[i].height % 65536,
                    dataOffset |-> dataOffset]
              ELSE table[id]],
         dataOffset + BytesOf(m[i]))

\* the second loop, from the i-th sprite on; a set past the end of the view
\* throws (RangeError)
RECURSIVE writePixels(_, _, _, _)
writePixels(m, i, store, writeOffset) ==
  IF i > Len(m) THEN [store |-> store, thrown |-> FALSE]
  ELSE IF writeOffset + m[i].data.length > ViewLength
    THEN [store |-> store, thrown |-> TRUE]
    ELSE writePixels(m, i + 1, store \cup {[offset |-> writeOffset, data |-> m[i].data]},
                     writeOffset + m[i].data.length)

\* the directory holds one more file
ListFile(f) ==
  /\ pc = "idle"
  /\ spc = "scan"
  /\ Len(listing) < MaxFiles
  /\ listing' = Append(listing, f)
  /\ UNCHANGED <<spc, spriteAssets, sprites, nextDataOffset, meta, pixelStore, warnings,
                 runtime>>

\* loadSprites, up to the scanned list
Scan ==
  /\ pc = "idle"
  /\ spc = "scan"
  /\ spc' = "load"
  /\ spriteAssets' = scanDirectory(listing)
  /\ UNCHANGED <<listing, sprites, nextDataOffset, meta, pixelStore, warnings, runtime>>

\* #loadSprite of the next asset
LoadSprite ==
  /\ pc = "idle"
  /\ spc = "load"
  /\ spriteAssets # <<>>
  /\ spriteAssets' = Tail(spriteAssets)
  /\ LET f == Head(spriteAssets)
         dup == IF has(sprites, f.id) THEN {"already loaded"} ELSE {} IN
     IF f.image = <<>> \/ (f.grid # <<>> /\ SheetThrows(f))
       THEN /\ sprites' = sprites
            /\ warnings' = warnings \cup dup \cup {"failed to load sprite"}
       ELSE IF f.grid # <<>>
         THEN LET st == loadSpriteSheet(sprites, f) IN
              /\ sprites' = st.sprites
              /\ warnings' = warnings \cup dup \cup
                               (IF st.warned THEN {"exceeds maximum"} ELSE {})
         ELSE /\ sprites' = loadSingleSprite(sprites, f)
              /\ warnings' = warnings \cup dup
  /\ UNCHANGED <<listing, spc, nextDataOffset, meta, pixelStore, runtime>>

\* #writeSpritesToMemory, and the catch of loadSprites when it throws
WriteSpritesToMemory ==
  /\ pc = "idle"
  /\ spc = "load"
  /\ spriteAssets = <<>>
  /\ spc' = "done"
  /\ LET md == writeMetadata(sprites, 1, meta, 0)
         px == writePixels(sprites, 1, pixelStore, 0) IN
     /\ meta' = md.table
     /\ pixelStore' = px.store
     /\ IF px.thrown
          THEN /\ nextDataOffset' = nextDataOffset
               /\ warnings' = warnings \cup {"sprite loading failed"}
          ELSE /\ nextDataOffset' = md.dataOffset
               /\ warnings' = warnings \cup
                    (IF md.dataOffset > SPRITE_DATA_SIZE
                       THEN {"exceeds allocated memory"} ELSE {})
  /\ UNCHANGED <<listing, spriteAssets, sprites, runtime>>

\* loadSprites when assets/sprites/ is missing: scanDirectory returns [], with
\* no message on a 404 and a warning when the fetch rejects
ScanMissing(how) ==
  /\ pc = "idle"
  /\ spc = "scan"
  /\ listing = <<>>
  /\ spc' = "load"
  /\ spriteAssets' = <<>>
  /\ warnings' = IF how = "error" THEN warnings \cup {"failed to scan directory"} ELSE warnings
  /\ UNCHANGED <<listing, sprites, nextDataOffset, meta, pixelStore, runtime>>

----------------------------------------------------------------------------
(***************************************************************************)
(* Audio injector and player: AudioManager (src/unnamed/part_005, lines    *)
(* 172-316).  An audio file is its leading number, a label and whether its *)
(* fetch and decode succeed; the buffer it decodes to is identified by the *)
(* file.  The two catalogs are Maps, kept in iteration order.              *)
(***************************************************************************)

AudioIds == {3, 7}
AudioFiles == [id : AudioIds, label : {"a", "b"}, decodes : BOOLEAN]
Sources == 1..MaxSources
Failures == {"404", "error"}      \* how the fetch of a missing directory ends

spriteState == <<listing, spc, spriteAssets, sprites, nextDataOffset, meta, pixelStore, warnings>>

\* state the loading steps of the audio manager leave alone
ambient == <<clock, hidden, pc, sched, guest, currentGame, lastModified, watchInterval,
             player, assets, watch, spriteState, input, arena, lastEntry, hist>>

\* Map.prototype.get: the buffer stored under id; the callers test has(m, id),
\* which is false where get returns undefined
get(m, id) == (CHOOSE r \in {m[i] : i \in 1..Len(m)} : r.id = id).buffer

\* the directory dir holds one more file
ListAudio(dir, f) ==
  /\ pc = "idle"
  /\ apc = "scan"
  /\ Len(sfxListing) + Len(musicListing) < MaxFiles
  /\ IF dir = "sfx"
       THEN sfxListing' = Append(sfxListing, f) /\ UNCHANGED musicListing
       ELSE musicListing' = Append(musicListing, f) /\ UNCHANGED sfxListing
  /\ UNCHANGED <<apc, audioAssets, sfxBuffers, musicBuffers, audioWarnings, ambient>>

\* loadAudio, up to the scanned list of assets/sfx/
ScanSfx ==
  /\ pc = "idle"
  /\ apc = "scan"
  /\ apc' = "sfx"
  /\ audioAssets' = scanDirectory(sfxListing)
  /\ UNCHANGED <<sfxListing, musicListing, sfxBuffers, musicBuffers, audioWarnings, ambient>>

\* the same when assets/sfx/ is missing
ScanSfxMissing(how) ==
  /\ pc = "idle"
  /\ apc = "scan"
  /\ sfxListing = <<>>
  /\ apc' = "sfx"
  /\ audioAssets' = <<>>
  /\ audioWarnings' = IF how = "error" THEN audioWarnings \cup {"failed to scan directory"}
                                       ELSE audioWarnings
  /\ UNCHANGED <<sfxListing, musicListing, sfxBuffers, musicBuffers, ambient>>

LoadAudioFileAlways(bufferMap, f) ==
  MapSet(bufferMap, [id |-> f.id, buffer |-> f])

\* #loadAudioFile: the catalog after the file f was processed
LoadAudioFile(bufferMap, f) ==
  IF f.decodes THEN MapSet(bufferMap, [id |-> f.id, buffer |-> f]) ELSE bufferMap

\* the body of the two for loops of loadAudio: the next asset is loaded
LoadAudio ==
  /\ pc = "idle"
  /\ apc \in {"sfx", "music"}
  /\ audioAssets # <<>>
  /\ audioAssets' = Tail(audioAssets)
  /\ LET f == Head(audioAssets)
         bufferMap == IF apc = "sfx" THEN sfxBuffers ELSE musicBuffers
         dup == IF has(bufferMap, f.id) THEN {"already loaded"} ELSE {} IN
     /\ IF apc = "sfx"
          THEN sfxBuffers' = LoadAudioFile(sfxBuffers, f) /\ UNCHANGED musicBuffers
          ELSE musicBuffers' = LoadAudioFile(musicBuffers, f) /\ UNCHANGED sfxBuffers
     /\ audioWarnings' = audioWarnings \cup dup \cup
                           (IF f.decodes THEN {} ELSE {"failed to load"})
  /\ UNCHANGED <<sfxListing, musicListing, apc, ambient>>

\* the sound effects are loaded: assets/music/ is scanned
ScanMusic ==
  /\ pc = "idle"
  /\ apc = "sfx"
  /\ audioAssets = <<>>
  /\ apc' = "music"
  /\ audioAssets' = scanDirectory(musicListing)
  /\ UNCHANGED <<sfxListing, musicListing, sfxBuffers, musicBuffers, audioWarnings, ambient>>

ScanMusicMissing(how) ==
  /\ pc = "idle"
  /\ apc = "sfx"
  /\ audioAssets = <<>>
  /\ musicListing = <<>>
  /\ apc' = "music"
  /\ audioAssets' = <<>>
  /\ audioWarnings' = IF how = "error" THEN audioWarnings \cup {"failed to scan directory"}
                                       ELSE audioWarnings
  /\ UNCHANGED <<sfxListing, musicListing, sfxBuffers, musicBuffers, ambient>>

\* loadAudio returns
AudioLoaded ==
  /\ pc = "idle"
  /\ apc = "music"
  /\ audioAssets = <<>>
  /\ apc' = "done"
  /\ UNCHANGED <<sfxListing, musicListing, audioAssets, sfxBuffers, musicBuffers,
                 audioWarnings, ambient>>

\* state the player leaves alone
catalogs == <<sfxListing, musicListing, apc, audioAssets, sfxBuffers, musicBuffers>>
backstage == <<clock, hidden, pc, sched, guest, currentGame, lastModified, watchInterval,
               assets, watch, injector, catalogs, input, arena, lastEntry, hist>>

\* a guest entry point is executing: the imports can be called
InGuest == pc \in {"init", "update", "draw"}

\* console.warn(`... ${id} not loaded`) when the catalog has no buffer
NotLoaded(loaded) ==
  audioWarnings' = IF loaded THEN audioWarnings ELSE audioWarnings \cup {"not loaded"}

\* import audio.playSfx
PlaySfx(id) ==
  /\ InGuest
  /\ LET loaded == has(sfxBuffers, id) IN
     /\ sfxPlayed' = IF loaded THEN sfxPlayed \cup {get(sfxBuffers, id)} ELSE sfxPlayed
     /\ NotLoaded(loaded)
  /\ UNCHANGED <<currentMusic, sounding, backstage>>

PlayMusicKeeps(id) ==
  /\ InGuest
  /\ Cardinality(sounding) < MaxSources
  /\ LET loaded == has(musicBuffers, id) IN
     /\ IF ~loaded
          THEN UNCHANGED <<currentMusic, sounding>>
          ELSE LET source == CHOOSE n \in Sources : \A s \in sounding : s.source # n IN
               /\ sounding' = sounding \cup {[source |-> source, buffer |-> get(musicBuffers, id)]}
               /\ currentMusic' = source
     /\ NotLoaded(loaded)
  /\ UNCHANGED <<sfxPlayed, backstage>>

PlayMusicChecksFirst(id) ==
  /\ InGuest
  /\ LET stopped == {s \in sounding : s.source # currentMusic}
         loaded == has(musicBuffers, id) IN
     /\ IF ~loaded
          THEN UNCHANGED <<currentMusic, sounding>>
          ELSE LET source == CHOOSE n \in Sources : \A s \in stopped : s.source # n IN
               /\ Cardinality(stopped) < MaxSources
               /\ sounding' = stopped \cup {[source |-> source, buffer |-> get(musicBuffers, id)]}
               /\ currentMusic' = source
     /\ NotLoaded(loaded)
  /\ UNCHANGED <<sfxPlayed, backstage>>

\* import audio.playMusic: stopMusic(), then a looping source on the buffer
PlayMusic(id) ==
  /\ InGuest
  /\ LET stopped == {s \in sounding : s.source # currentMusic}
         loaded == has(musicBuffers, id) IN
     /\ IF ~loaded
          THEN stopMusic
          ELSE LET source == CHOOSE n \in Sources : \A s \in stopped : s.source # n IN
               /\ Cardinality(stopped) < MaxSources
               /\ sounding' = stopped \cup {[source |-> source, buffer |-> get(musicBuffers, id)]}
               /\ currentMusic' = source
     /\ NotLoaded(loaded)
  /\ UNCHANGED <<sfxPlayed, backstage>>

\* import audio.stopMusic
StopMusic ==
  /\ InGuest
  /\ stopMusic
  /\ UNCHANGED <<sfxPlayed, audioWarnings, backstage>>

----------------------------------------------------------------------------
Init ==
  /\ clock = 0 /\ hidden = FALSE /\ pc = "idle"
  /\ pending = {} /\ loads = {} /\ nextInst = 1 /\ cur = NoLoad
  /\ hasAborted = FALSE /\ animationFrameId = 0
  /\ wasmExports = 0 /\ init = 0 /\ binding = 0 /\ draw = 0
  /\ currentGame = "pong" /\ lastModified = 0 /\ watchInterval = FALSE
  /\ marker = [g \in Games |-> IF g = "pong" THEN 1 ELSE 2] /\ checks = {} /\ seen = 0 /\ failed = FALSE
  /\ currentMusic = 0 /\ sounding = {} /\ sfxPlayed = {}
  /\ sfxListing = <<>> /\ musicListing = <<>> /\ apc = "scan" /\ audioAssets = <<>>
  /\ sfxBuffers = <<>> /\ musicBuffers = <<>> /\ audioWarnings = {}
  /\ inputMask = {} /\ prevInputMask = {}
  /\ mouseX = -1 /\ mouseY = -1 /\ mouseButtons = {} /\ prevMouseButtons = {}
  /\ last = 0 /\ acc = 0 /\ updates = 0
  /\ memInput = [buttons |-> {}, prevButtons |-> {}]
  /\ memMouse = [x |-> 0, y |-> 0, buttons |-> {}, prevButtons |-> {}]
  /\ ram = "zero" /\ spriteMem = "zero" /\ fb = "zero" /\ screen = "zero"
  /\ assets = "loading"
  /\ lastEntry = Entry("", "", {})
  /\ elapsed = 0 /\ ticks = 0 /\ clean = TRUE /\ fits = TRUE /\ capped = FALSE
  /\ cold = FALSE /\ inits = 0 /\ ran = FALSE /\ trapped = FALSE /\ initFailed = FALSE
  /\ commits = 0 /\ calls = 0 /\ rolled = FALSE
  /\ listing = <<>> /\ spc = "scan" /\ spriteAssets = <<>> /\ sprites = <<>> /\ nextDataOffset = 0
  /\ meta = [id \in {} |-> 0] /\ pixelStore = {} /\ warnings = {}

Frame ==
  \/ \E h \in Handles : FrameStart(h)
  \/ LoopCommit
  \/ \E o \in GuestOutcomes : UpdateReturn(o)
  \/ LoopExit
  \/ Render
  \/ \E o \in GuestOutcomes : DrawReturn(o)

Load ==
  \/ SpritesLoaded
  \/ AssetsLoaded
  \/ \E g \in Games : SelectGame(g)
  \/ HotReload
  \/ \E l \in loads : LoadReject(l)
  \/ \E l \in loads, e \in ExportSets : LoadResolve(l, e)
  \/ \E o \in GuestOutcomes : InitReturn(o)

FirstLoad ==
  \/ SpritesLoaded
  \/ AssetsLoaded
  \/ \E l \in loads, e \in ExportSets : LoadResolve(l, e)
  \/ \E o \in GuestOutcomes : InitReturn(o)

ButtonListeners ==
  \/ \E c \in KeyCodes : KeyDown(c)
  \/ \E c \in KeyCodes : KeyUp(c)
  \/ \E b \in Buttons : MouseDown(b)
  \/ \E b \in Buttons : MouseUp(b)

PointerListeners ==
  \/ \E p \in Positions : MouseMove(p)
  \/ MouseLeave

\* guest lifecycle: loads, reloads, frames and visibility, time in whole ticks
Next == Advance(DT, MaxTicks * DT) \/ Frame \/ Load \/ VisibilityChange

Spec == Init /\ [][Next]_vars

\* frame clock: one cold load, then frames and visibility, time in quanta
NextClock == Advance(1, MaxClock) \/ Frame \/ FirstLoad \/ VisibilityChange

SpecClock == Init /\ [][NextClock]_vars

\* input snapshot: the first load, frames and the raw input listeners
NextInput ==
  \/ Advance(DT, MaxInputTicks * DT)
  \/ Frame \/ FirstLoad \/ ButtonListeners \/ PointerListeners

SpecInput == Init /\ [][NextInput]_vars

\* hot swap under input: the first load, hot reloads, frames, button listeners
NextSwap ==
  \/ Advance(DT, MaxInputTicks * DT)
  \/ Frame \/ FirstLoad \/ HotReload \/ ButtonListeners

SpecSwap == Init /\ [][NextSwap]_vars

\* every button of the mouse: the first load, frames, mousedown and mouseup
NextButtons ==
  \/ Advance(DT, MaxInputTicks * DT)
  \/ Frame \/ FirstLoad
  \/ \E b \in AllButtons : MouseDown(b)
  \/ \E b \in AllButtons : MouseUp(b)

SpecButtons == Init /\ [][NextButtons]_vars

Watch ==
  \/ \E g \in Games : Publish(g)
  \/ CheckIssue
  \/ \E c \in checks : CheckFail(c)
  \/ \E c \in checks : CheckReturn(c)

\* watcher: loads, cartridge switches and the periodic check, no frames
NextWatch == Load \/ Watch

SpecWatch == Init /\ [][NextWatch]_vars

\* sprite injector: one run of loadSprites over a listing
NextSprites ==
  \/ \E f \in Files : ListFile(f)
  \/ Scan
  \/ \E how \in Failures : ScanMissing(how)
  \/ LoadSprite
  \/ WriteSpritesToMemory

SpecSprites == Init /\ [][NextSprites]_vars

\* the files of the startup runs: a sheet, a single sprite that does not
\* load and one too large for the arena, all of one start id; two sound files
\* of one id that decode and one that does not
StartupSprites ==
  {f \in Files : /\ f.id = 5
                 /\ \/ f.grid = <<>> /\ f.image \in {<<>>, <<500, 500>>}
                    \/ f.grid = <<2, 1>> /\ f.image = <<6, 4>>}

StartupAudio == {f \in AudioFiles : f.id = 3 /\ (f.decodes \/ f.label = "b")}

InjectorsSettledClean ==
  /\ spc = "done" /\ apc = "done" /\ warnings = {} /\ audioWarnings = {}
  /\ SpritesLoaded

\* both promises given to Promise.all have settled
InjectorsSettled == spc = "done" /\ apc = "done" /\ SpritesLoaded

\* the steps of the two injectors and of the Promise.all continuation
StartupStep ==
  \/ Scan
  \/ \E how \in Failures : ScanMissing(how)
  \/ LoadSprite
  \/ WriteSpritesToMemory
  \/ ScanSfx
  \/ \E how \in Failures : ScanSfxMissing(how)
  \/ LoadAudio
  \/ ScanMusic
  \/ \E how \in Failures : ScanMusicMissing(how)
  \/ AudioLoaded
  \/ InjectorsSettled
  \/ AssetsLoaded

\* startup: the two injectors run side by side, then the first load begins
NextStartup ==
  \/ \E f \in StartupSprites : ListFile(f)
  \/ \E dir \in {"sfx", "music"}, f \in StartupAudio : ListAudio(dir, f)
  \/ StartupStep

\* every fetch and every decode settles, and a settled promise's continuation runs
SpecStartup == Init /\ [][NextStartup]_vars /\ WF_vars(StartupStep)

\* the sound files of the jukebox runs: they all decode
Tracks == {f \in AudioFiles : f.decodes /\ f.label = "a"}

\* the imports of the audio manager, called by the running guest
GuestAudio ==
  \/ \E id \in AudioIds : PlaySfx(id)
  \/ \E id \in AudioIds : PlayMusic(id)
  \/ StopMusic

\* jukebox: the audio catalogs are built (assets/sprites/ is empty), the first
\* load and hot reloads, and init of the guest playing sounds
NextJukebox ==
  \/ \E dir \in {"sfx", "music"}, f \in Tracks : ListAudio(dir, f)
  \/ ScanSfx \/ LoadAudio \/ ScanMusic \/ AudioLoaded
  \/ Scan \/ WriteSpritesToMemory
  \/ InjectorsSettled \/ AssetsLoaded
  \/ \E l \in loads, e \in ExportSets : LoadResolve(l, e)
  \/ \E o \in GuestOutcomes : InitReturn(o)
  \/ HotReload
  \/ GuestAudio

SpecJukebox == Init /\ [][NextJukebox]_vars

\* scan of named files: one run of each injector over directories of
\* ScanSprites and ScanAudio
NextScan ==
  \/ \E f \in ScanSprites : ListFile(f)
  \/ \E dir \in {"sfx", "music"}, f \in ScanAudio : ListAudio(dir, f)
  \/ Scan
  \/ LoadSprite
  \/ WriteSpritesToMemory
  \/ ScanSfx
  \/ LoadAudio
  \/ ScanMusic
  \/ AudioLoaded

SpecScan == Init /\ [][NextScan]_vars

----------------------------------------------------------------------------
(***************************************************************************)
(* Frame clock (SpecClock).                                                *)
(***************************************************************************)

\* a frame callback has returned and the guest is not halted
FrameCompletes == pc \in {"render", "draw"} /\ pc' = "idle" /\ ~hasAborted'

\* C1 as stated: with no trap and no frame delta above MAX_UPDATES*DT since the
\* accumulator was 0, whenever the deltas sum to N*DT update has run N times
\* and the accumulator is in [0, DT).
C1_DeltaCapOnly ==
  (pc = "idle" /\ ~hasAborted /\ clean /\ elapsed % DT = 0)
    => (ticks = elapsed \div DT /\ acc \in 0..(DT - 1))

\* C1 amended: the same, provided the accumulator (remainder carried over plus
\* the frame's delta) never rises above MAX_UPDATES*DT at a frame.
C1_FixedTimestep ==
  (pc = "idle" /\ ~hasAborted /\ clean /\ fits /\ elapsed % DT = 0)
    => (ticks = elapsed \div DT /\ acc \in 0..(DT - 1))

C1_Witness ==
  /\ pc = "idle" /\ ~hasAborted /\ clean /\ fits
  /\ elapsed % DT = 0 /\ ticks = elapsed \div DT
  /\ ticks > MAX_UPDATES /\ updates < MAX_UPDATES

\* C2: after a frame callback that completes without the guest halting the
\* accumulator is in [0, DT), and it is 0 when that frame ran MAX_UPDATES updates.
C2_AccumulatorRange ==
  [][FrameCompletes =>
       (acc' \in 0..(DT - 1) /\ (updates' = MAX_UPDATES => acc' = 0))]_vars

\* a frame that dropped a backlog: the cap was hit with time left over
C2_Witness ==
  /\ pc = "idle" /\ ~hasAborted /\ animationFrameId # 0
  /\ updates = MAX_UPDATES /\ acc = 0 /\ elapsed > ticks * DT

\* C3: a frame never calls update more than MAX_UPDATES times; a frame that
\* completed MAX_UPDATES updates leaves the loop with the accumulator 0, logs no
\* error and does not halt, still calls draw, and, draw having returned, has the
\* next callback requested.
C3_UpdateCap ==
  /\ [](updates <= MAX_UPDATES /\ (pc = "update" => updates < MAX_UPDATES))
  /\ [][(updates = MAX_UPDATES /\ ~hasAborted) =>
          /\ (pc = "loop" /\ pc' # pc) =>
                (acc' = 0 /\ ~hasAborted' /\ lastEntry' = lastEntry /\ pc' = "render")
          /\ (pc = "render" /\ pc' # pc) => pc' = "draw"
          /\ (pc = "draw" /\ pc' # pc /\ ~hasAborted') =>
                (animationFrameId' # 0 /\ animationFrameId' \in pending')]_vars

C3_Witness ==
  /\ pc = "idle" /\ ~hasAborted /\ animationFrameId \in pending
  /\ updates = MAX_UPDATES /\ acc = 0 /\ screen = "run" /\ ticks = MAX_UPDATES

----------------------------------------------------------------------------
(***************************************************************************)
(* Input snapshot (SpecInput, SpecSwap).                                   *)
(***************************************************************************)

InFrame == pc \in {"loop", "update", "render", "draw"}

Snapshot == [buttons |-> inputMask, prevButtons |-> prevInputMask]

MouseSnapshot == [x |-> mouseX, y |-> mouseY,
                  buttons |-> mouseButtons, prevButtons |-> prevMouseButtons]

\* C4: while update runs the arena holds the snapshot of that tick; the
\* rollover is done on the step on which update returns normally, is not done
\* when update throws, and is done at no other position of a frame.
C4_TickOrder ==
  /\ [](pc = "update" => (memInput = Snapshot /\ memMouse = MouseSnapshot))
  /\ [][/\ (pc = "update" /\ pc' = "loop") =>
              (prevInputMask' = inputMask /\ prevMouseButtons' = mouseButtons)
        /\ (pc = "update" /\ pc' = "render") =>
              UNCHANGED <<prevInputMask, prevMouseButtons>>
        /\ pc \in {"loop", "render", "draw"} =>
              UNCHANGED <<prevInputMask, prevMouseButtons>>]_vars

\* a second tick: update runs on a snapshot whose previous bytes were rolled
C4_Witness ==
  /\ pc = "update" /\ ticks = 1
  /\ memInput.prevButtons # {} /\ memMouse.prevButtons # {}
  /\ memInput.buttons = {}

\* C14: in every frame callback the number of snapshots committed equals the
\* number of update calls started, and no step of a frame but the commit
\* writes the input regions (a callback that runs no update writes nothing).
C14_CommitPerTick ==
  /\ [](commits = calls)
  /\ [][((InFrame \/ InFrame') /\ ~(pc = "loop" /\ pc' = "update")) =>
          UNCHANGED <<memInput, memMouse>>]_vars

\* the second tick of one frame callback, on a snapshot of its own
C14_Witness ==
  /\ pc = "update" /\ commits = 2 /\ calls = 2
  /\ memInput.prevButtons # {} /\ memMouse.x = 7

\* a snapshot is committed at which the raw button state, keyboard and
\* pointer, is what it was at the previous commit, with no call of loadGame
\* begun or ended between the two
SameRawInput ==
  /\ pc = "loop" /\ pc' = "update" /\ rolled
  /\ inputMask = memInput.buttons /\ mouseButtons = memMouse.buttons

\* C15: such a snapshot has current & ~previous = 0 for the keyboard and for
\* the pointer buttons.
C15_NoRepeatEdge ==
  [][SameRawInput =>
       /\ memInput'.buttons \ memInput'.prevButtons = {}
       /\ memMouse'.buttons \ memMouse'.prevButtons = {}]_vars

\* after a hot swap: a key and a button held over two ticks
C15_Witness ==
  /\ pc = "update" /\ rolled /\ binding = 2
  /\ memInput.buttons # {} /\ memInput.prevButtons = memInput.buttons
  /\ memMouse.buttons # {} /\ memMouse.prevButtons = memMouse.buttons

\* C16: the input regions of the arena change on no step but a commit: not on
\* a step of a raw device listener, and not between the call and the return
\* of update.
C16_SnapshotStable ==
  [][~(pc = "loop" /\ pc' = "update") => UNCHANGED <<memInput, memMouse>>]_vars

\* the listeners have moved the host-side state on since the last commit: the
\* arena still holds the snapshot of that tick
C16_Witness ==
  /\ pc = "idle" /\ rolled
  /\ inputMask # memInput.buttons /\ mouseButtons # memMouse.buttons
  /\ mouseX # memMouse.x

\* a hot swap completes: the continuation of loadGame(skipInit) succeeds
SwapCompletes(l) == l.skipInit /\ LoadResolve(l, Required)

\* C10: when a hot swap completes the accumulator is 0, the reference time is
\* the time of completion, and the keyboard and pointer-button masks, current
\* and previous, are 0.
C10_SwapNeutral ==
  [][\A l \in loads : SwapCompletes(l) =>
        /\ acc' = 0 /\ last' = clock
        /\ inputMask' = {} /\ prevInputMask' = {}
        /\ mouseButtons' = {} /\ prevMouseButtons' = {}]_vars

----------------------------------------------------------------------------
(***************************************************************************)
(* Guest lifecycle (Spec).                                                 *)
(***************************************************************************)

\* C5: update or draw is never running on a binding that has aborted or thrown.
C5_NoCallAfterTrap == pc \in {"update", "draw"} => ~trapped

\* a callback runs: a handle leaves pending, and neither a load nor a
\* visibility change cancelled it
CallbackRuns ==
  /\ pc = "idle" /\ hidden' = hidden /\ nextInst' = nextInst
  /\ pending' # pending /\ pending' \subseteq pending

\* C6: the halted flag is set only by a guest entry point that aborts or throws
\* or by a failed load, and cleared only by a call of loadGame; not by a frame
\* or a visibility change; a callback that runs while halted calls neither
\* update nor draw and requests no callback.
C6_TwoStates ==
  [][/\ (~hasAborted /\ hasAborted') =>
          \/ pc \in {"update", "draw", "init"}
          \/ pc = "idle" /\ loads' # loads /\ loads' \subseteq loads /\ binding' = binding
     /\ (hasAborted /\ ~hasAborted') => (pc = "idle" /\ nextInst' = nextInst + 1)
     /\ (hasAborted /\ (InFrame \/ hidden' # hidden \/ CallbackRuns)) => hasAborted'
     /\ (hasAborted /\ pc' # pc) => pc' \notin {"update", "draw"}
     /\ (hasAborted /\ CallbackRuns) => (pc' = "idle" /\ animationFrameId' = 0)
     /\ (InFrame /\ hasAborted') => pending' \subseteq pending]_vars

\* halted by the guest: nothing is pending any more
C6_Witness ==
  pc = "idle" /\ hasAborted /\ trapped /\ ran /\ pending = {} /\ ~hidden

\* the continuation of loadGame for an instance lacking a required export
MissingExports(l, e) == e # Required /\ LoadResolve(l, e)

\* the scheduler is Running: a binding is captured and it is not halted
Running == binding # 0 /\ ~hasAborted

\* C7 as stated: such a load logs the missing names, calls no entry point,
\* keeps the captured handles, requests no callback, and a scheduler that was
\* Running is still Running, one that was not is still not.
C7_NoTransition ==
  [][\A l \in loads, e \in ExportSets : MissingExports(l, e) =>
        /\ lastEntry' = Entry("ERROR", "missing exports", Required \ e)
        /\ pc' = "idle" /\ UNCHANGED <<binding, inits, ran>>
        /\ UNCHANGED <<pending, animationFrameId>>
        /\ Running' = Running]_vars

\* C7 amended: the same, but the load leaves the scheduler halted, whatever it
\* was before.
C7_MissingExports ==
  [][\A l \in loads, e \in ExportSets : MissingExports(l, e) =>
        /\ lastEntry' = Entry("ERROR", "missing exports", Required \ e)
        /\ pc' = "idle" /\ UNCHANGED <<binding, inits, ran>>
        /\ UNCHANGED <<pending, animationFrameId>>
        /\ hasAborted']_vars

\* a reload with a broken binary: the handles are still those of the old instance
C7_Witness ==
  /\ pc = "idle" /\ lastEntry.what = "missing exports" /\ hasAborted
  /\ binding # 0 /\ wasmExports # binding

\* C8: init runs only as part of a cold load, on the instance just captured,
\* before update or draw of it was called; a cold-loaded binding has had init
\* called exactly once, and nothing but a load capturing a binding calls init.
C8_InitOnce ==
  /\ [](pc = "init" => (binding = cur.id /\ ~cur.skipInit /\ inits = 1 /\ ~ran))
  /\ []((binding # 0 /\ cold) => inits = 1)
  /\ [][/\ (binding' # binding /\ cold') => pc' = "init"
        /\ inits' # inits => (pc = "idle" /\ binding' # binding)]_vars

\* update runs on the binding of a second cold load
C8_Witness == pc = "update" /\ cold /\ inits = 1 /\ binding = 2

\* the steps of a hot swap: hotReload, and the continuation of its loadGame
SwapStep ==
  \/ HotReload
  \/ \E l \in loads : l.skipInit /\ (LoadReject(l) \/ \E e \in ExportSets : LoadResolve(l, e))

\* C9: a hot swap never calls init, and its steps leave Guest RAM and the
\* sprite regions as they are.
C9_HotSwap ==
  /\ [](pc = "init" => ~cur.skipInit)
  /\ []((binding # 0 /\ ~cold) => inits = 0)
  /\ [][SwapStep => (UNCHANGED <<ram, spriteMem>> /\ pc' = "idle")]_vars

\* a hot-swapped binding over the RAM the old binding left
C9_Witness ==
  /\ pc = "idle" /\ binding = 2 /\ ~cold /\ inits = 0 /\ ~hasAborted
  /\ ram = "run" /\ spriteMem = "sprites"

\* C11: while a call of loadGame is between its start and its end (its
\* instantiation is pending, or its init is running), no frame callback is
\* running update or draw.
C11_LoadAtomic == loads # {} => pc \notin {"update", "draw"}

\* C13: the init, update and draw handles always come from one and the same
\* guest instance.
C13_OneBinding == init = binding /\ draw = binding

\* draw of the first instance runs after a later load failed on missing
\* exports and while another load is pending
C13_Witness ==
  /\ pc = "draw" /\ draw = 1 /\ init = 1 /\ wasmExports = 2 /\ loads # {}

----------------------------------------------------------------------------
(***************************************************************************)
(* Guest binary watcher (SpecWatch).                                       *)
(***************************************************************************)

\* a check returns and performs a hot swap
ChecksAndSwaps(c) == CheckReturn(c) /\ nextInst' # nextInst

\* the marker of the selected binary differs from the one the previous check
\* of that binary recorded
MarkerChanged == seen # 0 /\ marker[currentGame] # seen

\* C12: a check that returns performs a hot swap exactly when it is a check of
\* the selected binary whose marker differs from the one recorded at the
\* previous check of that binary; the first check of the selected binary after
\* the watch was started only records its marker.
C12_SwapIffChanged ==
  [][\A c \in checks :
        /\ ChecksAndSwaps(c) => (c.game = currentGame /\ MarkerChanged)
        /\ (CheckReturn(c) /\ c.game = currentGame /\ seen = 0) =>
              (nextInst' = nextInst /\ lastModified' = marker[currentGame])]_vars

----------------------------------------------------------------------------
(***************************************************************************)
(* Sprite injector (SpecSprites).                                          *)
(***************************************************************************)

\* #loadSprite is processing a sheet whose image has decoded
SheetStep ==
  /\ spc = "load" /\ spriteAssets # <<>> /\ spriteAssets' = Tail(spriteAssets)
  /\ Head(spriteAssets).grid # <<>> /\ Head(spriteAssets).image # <<>>

\* the ids the cells of sheet f would take, and those of them up to the bound
SheetIds(f) == f.id .. (f.id + f.grid[1] * f.grid[2] - 1)

\* the record of the k-th cell of sheet f, in row-major order
CellRecord(f, k) ==
  LET cols == f.grid[1]
      w == f.image[1] \div cols
      h == f.image[2] \div f.grid[2]
      r == k \div cols
      c == k % cols IN
  [id |-> f.id + r * cols + c, width |-> w, height |-> h,
   data |-> [file |-> f, sx |-> c * w, sy |-> r * h, length |-> w * h * 4]]

\* after the step, the catalog holds the row-major record of every cell of f
\* with an id in ids, no other record with an id of the sheet, and the records
\* of all other ids as they were
SheetStored(f, ids) ==
  /\ \A k \in 0..(f.grid[1] * f.grid[2] - 1) :
       (f.id + k \in ids) => \E i \in 1..Len(sprites') : sprites'[i] = CellRecord(f, k)
  /\ \A i \in 1..Len(sprites') :
       IF sprites'[i].id \in ids
         THEN sprites'[i] = CellRecord(f, sprites'[i].id - f.id)
         ELSE \E j \in 1..Len(sprites) : sprites[j] = sprites'[i]
  /\ \A i, j \in 1..Len(sprites') : sprites'[i].id = sprites'[j].id => i = j

\* C17 as stated: a sheet with start id S and grid COLS x ROWS, all its ids
\* within 255, on a decoded W x H image gives exactly COLS*ROWS records, ids
\* S .. S+COLS*ROWS-1 in row-major order, each floor(W/COLS) x floor(H/ROWS).
C17_SheetAnyImage ==
  [][SheetStep =>
       LET f == Head(spriteAssets) IN
       (f.id + f.grid[1] * f.grid[2] - 1 <= 255) => SheetStored(f, SheetIds(f))]_vars

\* C17 amended: the same for an image at least COLS wide and ROWS high; a
\* narrower or lower image gives no record and a warning.
C17_SheetRowMajor ==
  [][SheetStep =>
       LET f == Head(spriteAssets) IN
       (f.id + f.grid[1] * f.grid[2] - 1 <= 255) =>
          IF f.grid[1] <= f.image[1] /\ f.grid[2] <= f.image[2]
            THEN SheetStored(f, SheetIds(f))
            ELSE sprites' = sprites /\ "failed to load sprite" \in warnings']_vars

\* the sheet 5~3x2 on a 6 x 4 image: six 2 x 2 sprites, ids 5..10
C17_Witness ==
  /\ Len(sprites) = 6 /\ sprites[1].id = 5 /\ sprites[6].id = 10
  /\ sprites[4].data.sx = 0 /\ sprites[4].data.sy = 2
  /\ sprites[6].data.sx = 4 /\ sprites[6].width = 2 /\ sprites[6].height = 2

\* C18: no record of the catalog or of the metadata table has an id above
\* 255; a sheet whose ids would pass 255 keeps its cells up to id 255, in
\* row-major order, drops the others and warns.
C18_IdClamp ==
  /\ [](/\ \A i \in 1..Len(sprites) : sprites[i].id \in 0..255
        /\ DOMAIN meta \subseteq 0..255)
  /\ [][SheetStep =>
          LET f == Head(spriteAssets) IN
          (f.id + f.grid[1] * f.grid[2] - 1 > 255 /\ ~SheetThrows(f)) =>
             /\ SheetStored(f, SheetIds(f) \cap 0..255)
             /\ "exceeds maximum" \in warnings']_vars

\* the sheet 254~3x2 written to the arena: ids 254 and 255, four cells dropped
C18_Witness ==
  /\ spc = "done" /\ "exceeds maximum" \in warnings
  /\ DOMAIN meta = {254, 255} /\ meta[255].dataOffset = 16

\* #writeSpritesToMemory has returned
Written == spc = "done" /\ "sprite loading failed" \notin warnings

RECURSIVE Payload(_, _)
Payload(m, i) == IF i > Len(m) THEN 0 ELSE m[i].data.length + Payload(m, i + 1)

\* C20: every write of pixel bytes lies inside the Sprite Pixel Store, and a
\* payload above its capacity is reported.
C20_PixelsInRegion ==
  spc = "done" =>
    /\ \A w \in pixelStore : w.offset + w.data.length <= SPRITE_DATA_SIZE
    /\ Payload(sprites, 1) > SPRITE_DATA_SIZE =>
         (warnings \cap {"exceeds allocated memory", "sprite loading failed"} # {})

----------------------------------------------------------------------------
(***************************************************************************)
(* Asset catalogs and startup (SpecStartup).                               *)
(***************************************************************************)

\* the assets a loop over the scanned list has processed so far
Processed(files, before, during, remaining) ==
  LET scanned == scanDirectory(files) IN
  IF before THEN <<>>
  ELSE IF during THEN SubSeq(scanned, 1, Len(scanned) - Len(remaining))
  ELSE scanned

SpritesProcessed == Processed(listing, spc = "scan", spc = "load", spriteAssets)

SfxProcessed == Processed(sfxListing, apc = "scan", apc = "sfx", audioAssets)

MusicProcessed == Processed(musicListing, apc \in {"scan", "sfx"}, apc = "music", audioAssets)

\* #loadSprite of file f stores something: the image loads and no cell is empty
Decodes(f) == f.image # <<>> /\ (f.grid # <<>> => ~SheetThrows(f))

\* the ids within 0..255 that file f resolves to
ResolvesTo(f) == IF f.grid = <<>> THEN {f.id} ELSE SheetIds(f) \cap 0..255

\* the record file f produces for id
Produced(f, id) ==
  IF f.grid = <<>>
    THEN [id |-> f.id, width |-> f.image[1], height |-> f.image[2],
          data |-> [file |-> f, sx |-> 0, sy |-> 0, length |-> f.image[1] * f.image[2] * 4]]
    ELSE CellRecord(f, id - f.id)

\* the ids a file of the listing can resolve to
SpriteIds == UNION {ResolvesTo(f) : f \in Files}

\* the position in done of the last asset that decoded and resolves to id, 0 if none
LastSprite(done, id) ==
  LET good == {i \in 1..Len(done) : Decodes(done[i]) /\ id \in ResolvesTo(done[i])} IN
  IF good = {} THEN 0 ELSE CHOOSE i \in good : \A j \in good : j <= i

LastAudio(done, id) ==
  LET good == {i \in 1..Len(done) : done[i].decodes /\ done[i].id = id} IN
  IF good = {} THEN 0 ELSE CHOOSE i \in good : \A j \in good : j <= i

\* the catalog m holds under id the buffer of the last such file, or nothing
AudioLastWins(m, done) ==
  \A id \in AudioIds :
    LET k == LastAudio(done, id) IN
    IF k = 0 THEN ~has(m, id) ELSE has(m, id) /\ get(m, id) = done[k]

\* C21: at every point of the build, each catalog (sprites, sound effects,
\* music) holds under an id the entry produced by the last asset processed so
\* far that decoded and resolves to that id, and no entry for an id no decoded
\* asset resolves to; an asset that fails to decode therefore replaces nothing.
C21_LastWriteWins ==
  /\ \A id \in SpriteIds :
       LET k == LastSprite(SpritesProcessed, id) IN
       IF k = 0 THEN ~has(sprites, id)
       ELSE \E i \in 1..Len(sprites) : sprites[i] = Produced(SpritesProcessed[k], id)
  /\ \A i, j \in 1..Len(sprites) : sprites[i].id = sprites[j].id => i = j
  /\ AudioLastWins(sfxBuffers, SfxProcessed)
  /\ AudioLastWins(musicBuffers, MusicProcessed)

\* a single sprite replaced the first cell of a sheet loaded before it, and a
\* sound file that failed to decode left the entry of its id as it was
C21_Witness ==
  /\ spc = "done" /\ apc = "done"
  /\ Len(sprites) = 2 /\ sprites[1].id = 5 /\ sprites[1].data.file.grid = <<>>
  /\ sprites[2].id = 6 /\ sprites[2].data.file.grid = <<2, 1>>
  /\ "already loaded" \in warnings /\ "already loaded" \in audioWarnings
  /\ "failed to load" \in audioWarnings
  /\ has(sfxBuffers, 3) /\ get(sfxBuffers, 3).label = "a"

\* every asset of the scanned list that decodes has an entry under its id(s)
SpritesComplete ==
  \A i \in 1..Len(scanDirectory(listing)) :
    LET f == scanDirectory(listing)[i] IN
    Decodes(f) => \A id \in ResolvesTo(f) : has(sprites, id)

AudioComplete(m, files) ==
  \A i \in 1..Len(scanDirectory(files)) :
    LET f == scanDirectory(files)[i] IN f.decodes => has(m, f.id)

\* C22: whatever directories are missing, whatever files fail to decode and
\* however large the sprite payload is, both injectors finish and the first
\* guest load is eventually started, and once an injector has finished every
\* asset of its directories that decoded has an entry in its catalog.
C22_StartupSurvives ==
  /\ <>(spc = "done" /\ apc = "done" /\ assets = "started" /\ nextInst > 1)
  /\ [](spc = "done" => SpritesComplete)
  /\ [](apc = "done" =>
          (AudioComplete(sfxBuffers, sfxListing) /\ AudioComplete(musicBuffers, musicListing)))

\* the first load was started after a sprite failed to load, the pixel copy
\* ran past the end of the arena, assets/music/ could not be fetched and a
\* sound effect failed to decode
C22_Witness ==
  /\ assets = "started" /\ loads # {}
  /\ "failed to load sprite" \in warnings /\ "sprite loading failed" \in warnings
  /\ "failed to scan directory" \in audioWarnings /\ "failed to load" \in audioWarnings
  /\ Len(sprites) = 1 /\ Len(sfxBuffers) = 1 /\ musicBuffers = <<>>

\* C23: while the injectors have not both completed, no call of loadGame has
\* been made and no guest entry point is running.
C23_LoadAfterInjectors == assets = "loading" => (nextInst = 1 /\ ~InGuest)

----------------------------------------------------------------------------
(***************************************************************************)
(* Audio player (SpecJukebox).                                             *)
(***************************************************************************)

\* C24: at most one looping source sounds at any time, and it is the one
\* #currentMusic refers to; after playMusic the only source sounding is the new
\* one, on the requested track (none when the track is not loaded); after
\* stopMusic none sounds; a step that starts a sound effect leaves the music
\* as it is.
C24_OneTrack ==
  /\ [](/\ Cardinality(sounding) <= 1
        /\ \A s \in sounding : s.source = currentMusic
        /\ currentMusic # 0 => \E s \in sounding : s.source = currentMusic)
  /\ [][/\ \A id \in AudioIds : PlayMusic(id) =>
             IF has(musicBuffers, id)
               THEN sounding' = {[source |-> currentMusic', buffer |-> get(musicBuffers, id)]}
               ELSE sounding' = {} /\ currentMusic' = 0
        /\ StopMusic => (sounding' = {} /\ currentMusic' = 0)
        /\ (\E id \in AudioIds : PlaySfx(id)) => UNCHANGED <<currentMusic, sounding>>]_vars

\* track 7 is playing, both tracks are loaded, and a request for a sound
\* effect that is not loaded was refused
C24_Witness ==
  /\ pc = "init" /\ currentMusic # 0
  /\ \E s \in sounding : s.buffer.id = 7
  /\ has(musicBuffers, 3) /\ "not loaded" \in audioWarnings

\* C28: the steps of a hot swap leave the two audio catalogs, the active music
\* source and what is sounding as they are.
C28_SwapKeepsAudio ==
  [][SwapStep => UNCHANGED <<sfxBuffers, musicBuffers, currentMusic, sounding>>]_vars

----------------------------------------------------------------------------
(***************************************************************************)
(* Memory map                                                              *)
(***************************************************************************)

\* the regions of the memory map as [from, to), in the order of the map
Regions ==
  << [from |-> FB_START, to |-> FB_START + FB_SIZE],
     [from |-> INPUT_ADDR, to |-> INPUT_ADDR + 2],
     [from |-> MOUSE_ADDR, to |-> MOUSE_ADDR + 6],
     [from |-> SPRITE_METADATA_ADDR, to |-> SPRITE_METADATA_ADDR + 256 * SPRITE_METADATA_SIZE],
     [from |-> SPRITE_DATA_ADDR, to |-> SPRITE_DATA_ADDR + SPRITE_DATA_SIZE],
     [from |-> RAM_START, to |-> RAM_START + RAM_SIZE] >>

----------------------------------------------------------------------------
(***************************************************************************)
(* Render step                                                             *)
(***************************************************************************)

\* C26: in a frame callback that is not halted when its updates are done,
\* draw is invoked exactly once, after all updates of the frame (from the
\* render position only, which the loop has left, and the callback ends when
\* draw returns); the framebuffer is blitted only when draw returned
\* normally; draw is never invoked and nothing is blitted while halted, so a
\* halted guest leaves the screen as it was until a load clears the halt.
C26_DrawThenBlit ==
  /\ [](pc = "draw" => ~hasAborted)
  /\ [][(pc = "render" /\ ~hasAborted) => (pc' = "draw" /\ UNCHANGED <<acc, updates, ticks>>)]_vars
  /\ [][(pc' = "draw" /\ pc # "draw") => (pc = "render" /\ ~LoopCond)]_vars
  /\ [][pc = "draw" => (pc' = "idle" /\ UNCHANGED <<acc, updates, ticks>>)]_vars
  /\ [][(pc = "render" /\ hasAborted) => (pc' = "idle" /\ screen' = screen)]_vars
  /\ [][screen' # screen => (pc = "draw" /\ ~hasAborted' /\ screen' = fb')]_vars
  /\ [][hasAborted => (screen' = screen /\ pc' # "draw")]_vars

\* the guest halted in an update of a later frame and the frame drawn before
\* is still on screen
C26_Witness ==
  /\ pc = "idle"
  /\ hasAborted
  /\ lastEntry = Entry("ERROR", "update", {})
  /\ screen = "run"
  /\ ticks >= 1

----------------------------------------------------------------------------
(***************************************************************************)
(* Scheduling of frame callbacks                                           *)
(***************************************************************************)

\* C27: whenever a frame callback is requested (at the end of frame, at
\* the end of loadGame, on becoming visible), the document is visible and
\* the scheduler is not halted.
C27_ScheduledOnlyVisibleRunning ==
  [][(pending' \ pending # {}) => (~hidden' /\ ~hasAborted')]_vars

----------------------------------------------------------------------------
(***************************************************************************)
(* Frame partition                                                         *)
(***************************************************************************)

\* C29: as long as no frame callback has hit the update cap and the guest
\* has not halted since the loop was started, after any sequence of frame
\* callbacks the number of updates performed is floor(time elapsed / DT):
\* it depends on the total only, not on how the frames divide it, and the
\* accumulator holds the rest.
C29_PartitionIndependent ==
  (pc = "idle" /\ ~hasAborted /\ clean /\ ~capped)
    => (ticks = elapsed \div DT /\ acc = elapsed % DT)

\* eleven quanta in several frames, none of which hit the cap: five updates
\* and a remainder of one
C29_Witness ==
  /\ pc = "idle" /\ ~hasAborted /\ clean /\ ~capped
  /\ elapsed = 5 * DT + 1 /\ ticks = 5 /\ acc = 1

----------------------------------------------------------------------------
(***************************************************************************)
(* Previous-button bytes across ticks                                      *)
(***************************************************************************)

\* C30: when a snapshot is committed for a tick and the tick before it
\* completed with no call of loadGame begun or ended since, the
\* previous-button bytes committed are the current-button bytes the arena
\* held from the earlier tick, for the keyboard and for the pointer,
\* whatever the listeners did to the raw state in between and however many
\* frame callbacks without an update ran in between.
C30_PreviousIsEarlierCurrent ==
  [][(pc = "loop" /\ pc' = "update" /\ rolled) =>
       /\ memInput'.prevButtons = memInput.buttons
       /\ memMouse'.prevButtons = memMouse.buttons]_vars

\* the second tick, in a later frame callback than the first; a key and a
\* button were held at the first and both were released before the second
C30_Witness ==
  /\ pc = "update" /\ rolled /\ ticks = 1 /\ commits = 1
  /\ memInput.prevButtons # {} /\ memInput.buttons = {}
  /\ memMouse.prevButtons # {} /\ memMouse.buttons = {}
  /\ inits = 1

----------------------------------------------------------------------------
(***************************************************************************)
(* Hidden page                                                             *)
(***************************************************************************)

----------------------------------------------------------------------------
(***************************************************************************)
(* Outstanding frame callbacks                                             *)
(***************************************************************************)

\* C32: at most one requested frame callback is outstanding at any time.
C32_OnePending == Cardinality(pending) <= 1

----------------------------------------------------------------------------
(***************************************************************************)
(* Overlapping loads                                                       *)
(***************************************************************************)

\* C33: once every call of loadGame has settled and the scheduler is not
\* halted, the captured binding is the instance of the most recently
\* requested load (the load of the selected cartridge), in whatever order
\* the instantiations completed.
C33_LatestLoadWins ==
  (loads = {} /\ pc = "idle" /\ ~hasAborted /\ binding # 0) => binding = nextInst - 1

----------------------------------------------------------------------------
(***************************************************************************)
(* Failed init                                                             *)
(***************************************************************************)

\* C34: when init traps or throws in a cold load the failure is logged, the
\* scheduler is left halted and the load requests no frame callback; and
\* neither update nor draw ever runs on a binding whose init failed.
C34_FailedInitNeverRuns ==
  /\ [][(pc = "init" /\ pc' = "idle" /\ initFailed') =>
          /\ lastEntry' = Entry("ERROR", "init", {})
          /\ hasAborted'
          /\ UNCHANGED <<pending, animationFrameId>>]_vars
  /\ [](pc \in {"update", "draw"} => ~initFailed)

----------------------------------------------------------------------------
(***************************************************************************)
(* Update that throws                                                      *)
(***************************************************************************)

\* update has thrown or aborted in the running frame callback
UpdateFailed == pc = "render" /\ hasAborted

\* C35: when update throws or aborts, the step on which it does leaves the
\* accumulator, the count of updates and the previous-button state as they
\* were and halts the scheduler; the callback then ends without another
\* update, without draw and without requesting a callback.
C35_FailedTickNotConsumed ==
  /\ [][(pc = "update" /\ pc' # "update" /\ pc' # "loop") =>
          /\ UpdateFailed'
          /\ UNCHANGED <<acc, updates, ticks, prevInputMask, prevMouseButtons>>]_vars
  /\ [][UpdateFailed =>
          /\ pc' = "idle"
          /\ UNCHANGED <<acc, calls, ran, pending, animationFrameId, screen>>]_vars

\* the third update of a frame callback threw: two ticks were consumed, the
\* time of the third is still in the accumulator and nothing is requested
C35_Witness ==
  /\ pc = "idle" /\ hasAborted /\ lastEntry = Entry("ERROR", "update", {})
  /\ updates = 2 /\ calls = 3 /\ acc >= DT /\ ticks = 2
  /\ pending = {} /\ animationFrameId = 0

----------------------------------------------------------------------------
(***************************************************************************)
(* Pointer coordinates                                                     *)
(***************************************************************************)

Outside(x, y) == x = -1 /\ y = -1

Inside(x, y) == x \in 0..(WIDTH - 1) /\ y \in 0..(HEIGHT - 1)

\* C36: the pointer coordinates are both -1 or a position inside the
\* surface, and every commit writes them as they are; they are (-1, -1)
\* before any pointer event, they become (-1, -1) together, and from
\* (-1, -1) they change only to a position the mousemove listener computed.
C36_PointerSentinel ==
  /\ [](Outside(mouseX, mouseY) \/ Inside(mouseX, mouseY))
  /\ [][(pc = "loop" /\ pc' = "update") =>
          /\ memMouse'.x = mouseX /\ memMouse'.y = mouseY
          /\ Outside(memMouse'.x, memMouse'.y) \/ Inside(memMouse'.x, memMouse'.y)]_vars
  /\ [][(Outside(mouseX, mouseY) /\ <<mouseX, mouseY>>' # <<mouseX, mouseY>>) =>
          (pc = "idle" /\ <<mouseX', mouseY'>> \in Positions)]_vars
  /\ [][(Inside(mouseX, mouseY) /\ <<mouseX, mouseY>>' # <<mouseX, mouseY>>) =>
          (pc = "idle" /\ (Outside(mouseX', mouseY') \/ <<mouseX', mouseY'>> \in Positions))]_vars

\* the pointer was at the far corner of the surface at the last tick and has
\* left it since: the next commit writes (-1, -1)
C36_Witness ==
  /\ pc = "loop" /\ LoopCond /\ rolled
  /\ memMouse.x = WIDTH - 1 /\ memMouse.y = HEIGHT - 1
  /\ Outside(mouseX, mouseY)

----------------------------------------------------------------------------
(***************************************************************************)
(* Unknown audio ids                                                       *)
(***************************************************************************)

\* C37: playMusic with an id the music catalog does not hold stops the
\* active track, leaves none active and starts nothing; playSfx with an id
\* the effects catalog does not hold starts nothing and leaves the music as
\* it is; both leave the catalogs alone and log that the id is not loaded.
C37_UnknownId ==
  [][\A id \in AudioIds :
       /\ (PlayMusic(id) /\ ~has(musicBuffers, id)) =>
             /\ sounding' = {} /\ currentMusic' = 0
             /\ UNCHANGED <<sfxPlayed, sfxBuffers, musicBuffers>>
             /\ "not loaded" \in audioWarnings'
       /\ (PlaySfx(id) /\ ~has(sfxBuffers, id)) =>
             /\ UNCHANGED <<currentMusic, sounding, sfxPlayed, sfxBuffers, musicBuffers>>
             /\ "not loaded" \in audioWarnings']_vars

\* track 3 is playing, neither catalog holds id 7, and a request for an id
\* that is not loaded has been refused
C37_Witness ==
  /\ pc = "init" /\ currentMusic # 0
  /\ \E s \in sounding : s.buffer.id = 3
  /\ ~has(musicBuffers, 7) /\ ~has(sfxBuffers, 7)
  /\ "not loaded" \in audioWarnings

----------------------------------------------------------------------------
(***************************************************************************)
(* Asset ids (SpecScan)                                                    *)
(***************************************************************************)

\* the integer the decimal digits ds denote
Decimal(ds) ==
  LET RECURSIVE pow(_)
      pow(k) == IF k = 0 THEN 1 ELSE 10 * pow(k - 1)
      RECURSIVE sum(_)
      sum(i) == IF i > Len(ds) THEN 0 ELSE digitValue(ds[i]) * pow(Len(ds) - i) + sum(i + 1) IN
  sum(1)

\* name n starts with a decimal id, and it is within 0..255
Accepted(n) == leadingDigits(n) # <<>> /\ Decimal(leadingDigits(n)) \in 0..255

\* the cell of its sheet a sprite record was read from, 0 for a single sprite
CellIndex(r) ==
  IF r.data.file.grid = <<>> THEN 0
  ELSE (r.data.sy \div r.height) * r.data.file.grid[1] + (r.data.sx \div r.width)

Entries(m) == {m[i] : i \in 1..Len(m)}

\* every audio entry comes from a file of an accepted name, under the id the
\* name starts with
AudioKeys(m) ==
  \A r \in Entries(m) : Accepted(r.buffer.name) /\ r.id = Decimal(leadingDigits(r.buffer.name))

\* C38 as stated: every catalog entry comes from a file whose name starts
\* with a decimal id within 0..255, and its key is that id.
C38_KeyIsLeadingId ==
  /\ \A r \in Entries(sprites) :
       Accepted(r.data.file.name) /\ r.id = Decimal(leadingDigits(r.data.file.name))
  /\ AudioKeys(sfxBuffers) /\ AudioKeys(musicBuffers)

\* C38 amended: the same, but the cells of a sprite sheet take the ids that
\* follow the id of its name, in reading order, up to 255.
C38_KeyFromLeadingId ==
  /\ \A r \in Entries(sprites) :
       /\ Accepted(r.data.file.name)
       /\ r.id = Decimal(leadingDigits(r.data.file.name)) + CellIndex(r)
       /\ r.id \in 0..255
  /\ AudioKeys(sfxBuffers) /\ AudioKeys(musicBuffers)

\* both injectors ran over directories that hold a name without a leading
\* id: the sheet filled ids 5 and 6, 007 is under 7, nothing else is stored
C38_Witness ==
  /\ spc = "done" /\ apc = "done"
  /\ \E i \in 1..Len(listing) : listing[i].id = NoId
  /\ \E i \in 1..Len(sfxListing) : sfxListing[i].id = NoId
  /\ {r.id : r \in Entries(sprites)} = {5, 6}
  /\ {r.id : r \in Entries(sfxBuffers)} = {7}

----------------------------------------------------------------------------
(***************************************************************************)
(* Version checks that fail or find nothing new (SpecWatch).               *)
(***************************************************************************)

\* check c returns the marker already recorded
SameMarker(c) == CheckReturn(c) /\ marker[c.game] = lastModified

\* check c returns a marker other than the recorded one
NewMarker(c) == CheckReturn(c) /\ lastModified # 0 /\ marker[c.game] # lastModified

\* C39: a version check whose request throws leaves the recorded marker, the
\* active binding and the scheduler as they were, and a check that returns
\* after it still swaps when the marker it brings differs from the recorded
\* one; a check that returns the recorded marker begins no load and changes
\* none of these either.
C39_FailedCheckChangesNothing ==
  [][\A c \in checks :
        /\ CheckFail(c) => UNCHANGED <<lastModified, guest, sched, pc, currentGame, watchInterval>>
        /\ (NewMarker(c) /\ failed) =>
              (nextInst' = nextInst + 1 /\ lastModified' = marker[c.game])
        /\ SameMarker(c) => UNCHANGED <<lastModified, guest, sched, pc>>]_vars

\* a check has thrown while a binding was active and a marker recorded, and
\* the server now has another marker for the selected binary
C39_Witness ==
  /\ failed /\ binding # 0 /\ lastModified # 0
  /\ marker[currentGame] # lastModified
  /\ \E c \in checks : c.game = currentGame

----------------------------------------------------------------------------
(***************************************************************************)
(* Pointer buttons (SpecButtons).                                          *)
(***************************************************************************)

\* the bits of the mask that an event of MouseEvent.button b is about
BitsOf(b) ==
  CASE b = 0 -> {MouseButton.LEFT}
    [] b = 2 -> {MouseButton.RIGHT}
    [] b = 1 -> {MouseButton.MIDDLE}
    [] OTHER -> {}

\* C40: a press of the left, right or middle button sets bit 0, 1 or 2 of the
\* mask and a release clears it, no other bit changing; an event of any other
\* button leaves the mask as it was.
C40_ButtonBits ==
  [][\A b \in AllButtons :
        /\ MouseDown(b) => mouseButtons' = mouseButtons \cup BitsOf(b)
        /\ MouseUp(b) => mouseButtons' = mouseButtons \ BitsOf(b)]_vars

\* all three buttons were down at the last commit and the left one has been
\* released since: the other two bits are still set
C40_Witness ==
  /\ memMouse.buttons = {MouseButton.LEFT, MouseButton.RIGHT, MouseButton.MIDDLE}
  /\ mouseButtons = {MouseButton.RIGHT, MouseButton.MIDDLE}

============================================================================
